---- MODULE Spec2Model ----
(***************************************************************************)
(* Block discovery and loading of asdf/_block/reader.py: the block handle  *)
(* (ReadBlock), the serial scanner (read_blocks_serially) and the loader   *)
(* facade with its index-accelerated path (read_blocks).                   *)
(*                                                                         *)
(* A byte source is a sequence of cells (naturals) with a cursor; position *)
(* p of the source is cell p + 1 of the sequence.  The block codec         *)
(* (asdf/_block/io.py) and asdf/constants.py are not part of src/ and are  *)
(* modelled from the specification's sections 4.1 and 6.                   *)
(***************************************************************************)
EXTENDS Integers, Sequences, FiniteSets, TLC

(***************************************************************************)
(* Bounds of the inputs.                                                   *)
(***************************************************************************)
\* blocks in a generated stream
MaxBlocks == 3
\* cells of leading padding before the first block
MaxPad == 5

(***************************************************************************)
(* asdf.constants                                                          *)
(***************************************************************************)
\* b"\xd3BLK"
BLOCK_MAGIC == <<211, 66, 76, 75>>
\* b"#ASDF BLOCK INDEX"
INDEX_HEADER == <<35, 65, 83, 68, 70, 32, 66, 76, 79, 67, 75, 32, 73, 78, 68, 69, 88>>
BLOCK_FLAG_STREAMED == 1
magic_len == Len(BLOCK_MAGIC)

(***************************************************************************)
(* Python values                                                           *)
(***************************************************************************)
\* None is the empty tuple, a value x that is present is <<x>>
None == <<>>
Some(x) == <<x>>
IsNone(v) == v = <<>>
Val(v) == v[1]

Min(a, b) == IF a < b THEN a ELSE b
Max(a, b) == IF a > b THEN a ELSE b

\* bytes[:n]
Prefix(s, n) == SubSeq(s, 1, Min(n, Len(s)))

RECURSIVE SumSeq(_)
SumSeq(s) == IF s = <<>> THEN 0 ELSE s[1] + SumSeq(Tail(s))

RECURSIVE LStrip0(_)
LStrip0(s) == IF s # <<>> /\ s[1] = 0 THEN LStrip0(Tail(s)) ELSE s

RECURSIVE RStrip0(_)
RStrip0(s) ==
    IF s # <<>> /\ s[Len(s)] = 0 THEN RStrip0(SubSeq(s, 1, Len(s) - 1)) ELSE s

\* zero bytes removed from the end only
strip_trailing_only(s) == RStrip0(s)

\* bytes.strip(b"\0"): zero bytes are removed from both ends
Strip0(s) == RStrip0(LStrip0(s))

Zeros(n) == [j \in 1..n |-> 0]

(***************************************************************************)
(* The byte source: fd.read(n) at a position, and fd.read(-1)              *)
(***************************************************************************)
fd_read(strm, pos, n) ==
    IF pos >= Len(strm) \/ n <= 0 THEN <<>>
    ELSE SubSeq(strm, pos + 1, Min(pos + n, Len(strm)))

fd_read_all(strm, pos) ==
    IF pos >= Len(strm) THEN <<>> ELSE SubSeq(strm, pos + 1, Len(strm))

(***************************************************************************)
(* Block codec (asdf/_block/io.py), from the specification's 4.1 and 6.    *)
(* A block header is a fixed-size structure after the marker, one cell per *)
(* field: flags, compression, allocated_size, used_size, data_size,        *)
(* checksum.                                                               *)
(***************************************************************************)
HEADER_SIZE == 6

\* checksum(payload_bytes): a deterministic digest of the payload
calculate_block_checksum(data) == SumSeq(data) % 251

unpack_header(cells) ==
    [flags |-> cells[1], compression |-> cells[2], allocated_size |-> cells[3],
     used_size |-> cells[4], data_size |-> cells[5], checksum |-> cells[6]]

is_streamed(header) == (header.flags % 2) = BLOCK_FLAG_STREAMED

\* structurally valid: a known compression code (0, none) and
\* used_size <= allocated_size unless the block is streamed
validate_block_header(header) ==
    /\ header.compression = 0
    /\ (is_streamed(header) \/ header.used_size <= header.allocated_size)

\* the header cells as parsed
header_parsed(cells, offset) ==
    IF Len(cells) < HEADER_SIZE
    THEN [err |-> Some("OSError"), header |-> None, pos |-> offset + Len(cells)]
    ELSE IF ~validate_block_header(unpack_header(cells))
    THEN [err |-> Some("OSError"), header |-> None, pos |-> offset + Len(cells)]
    ELSE [err |-> None, header |-> Some(unpack_header(cells)), pos |-> offset + Len(cells)]

\* parse_block_header: FormatError on truncated or structurally invalid input
read_block_header(strm, offset) == header_parsed(fd_read(strm, offset, HEADER_SIZE), offset)

\* the payload cells as read
data_read(hdr, bytes) ==
    IF ~is_streamed(hdr) /\ Len(bytes) < hdr.used_size
    THEN [err |-> Some("OSError"), bytes |-> <<>>]
    ELSE [err |-> None, bytes |-> bytes]

\* the payload bytes of a block: used_size bytes at data_offset, or all bytes
\* to the end of the stream for a streamed block
read_block_data(strm, hdr, data_offset) ==
    data_read(hdr, IF is_streamed(hdr) THEN fd_read_all(strm, data_offset)
                   ELSE fd_read(strm, data_offset, hdr.used_size))

\* the payload as read_block returns it
Deferred == [kind |-> "callback", bytes |-> <<>>]
Owned(memmap, bytes) == [kind |-> IF memmap THEN "memmap" ELSE "bytes", bytes |-> bytes]

\* where read_block leaves the cursor: behind the allocated region, at the end
\* of the stream for a streamed block
past_block(strm, offset, hdr) ==
    IF is_streamed(hdr) THEN Max(Len(strm), offset + HEADER_SIZE)
    ELSE offset + HEADER_SIZE + hdr.allocated_size

read_block_fail(offset, p, calls) ==
    [err |-> Some("OSError"), offset |-> offset, header |-> None, data_offset |-> None,
     data |-> None, pos |-> p, calls |-> calls]

read_block_ok(strm, offset, hdr, dat, calls) ==
    [err |-> None, offset |-> offset, header |-> Some(hdr),
     data_offset |-> Some(offset + HEADER_SIZE), data |-> Some(dat),
     pos |-> past_block(strm, offset, hdr), calls |-> calls]

\* read_block with the payload d read at once
read_block_eager(strm, offset, seeks, memmap, hdr, d) ==
    IF ~IsNone(d.err)
    THEN read_block_fail(offset, Max(Len(strm), offset + HEADER_SIZE), seeks \o <<"read", "read">>)
    ELSE read_block_ok(strm, offset, hdr, Owned(memmap, d.bytes), seeks \o <<"read", "read">>)

\* read_block behind the header parse h
read_block_parsed(strm, offset, seeks, memmap, lazy_load, seekable, h) ==
    IF ~IsNone(h.err) THEN read_block_fail(offset, h.pos, seeks \o <<"read">>)
    ELSE IF lazy_load /\ seekable
    THEN read_block_ok(strm, offset, Val(h.header), Deferred, seeks \o <<"read", "tell", "seek">>)
    ELSE read_block_eager(strm, offset, seeks, memmap, Val(h.header),
                          read_block_data(strm, Val(h.header), offset + HEADER_SIZE))

\* read_block(fd, offset=None, memmap, lazy_load) -> (offset, header, data_offset, data).
\* offsetOpt = None reads at the cursor (the marker is already consumed).  With
\* lazy_load on a seekable source the payload is a deferred producer and the
\* cursor is moved past the allocated region (to the end for a streamed block).
read_block(strm, pos, offsetOpt, memmap, lazy_load, seekable) ==
    read_block_parsed(strm, IF IsNone(offsetOpt) THEN pos ELSE Val(offsetOpt),
                      IF IsNone(offsetOpt) THEN <<>> ELSE <<"seek">>, memmap, lazy_load,
                      seekable,
                      read_block_header(strm, IF IsNone(offsetOpt) THEN pos ELSE Val(offsetOpt)))

\* the position of the last occurrence of pattern in strm at or after min_offset:
\* the set is empty when there is none
PatternAt(strm, pattern, p) ==
    /\ p + Len(pattern) <= Len(strm)
    /\ SubSeq(strm, p + 1, p + Len(pattern)) = pattern

last_of(hits) == IF hits = {} THEN None ELSE Some(CHOOSE p \in hits : \A q \in hits : q <= p)

\* find_block_index(fd, min_offset) -> offset | None
find_block_index(strm, min_offset) ==
    last_of({p \in min_offset..Len(strm) : PatternAt(strm, INDEX_HEADER, p)})

index_parsed(head, body) ==
    IF head # INDEX_HEADER THEN [err |-> Some("OSError"), index |-> <<>>]
    ELSE IF \E j \in 1..Len(body) : body[j] >= 255
    THEN [err |-> Some("OSError"), index |-> <<>>]
    ELSE [err |-> None, index |-> body]

\* An index entry is one cell after the index header; a cell of 255 stands for
\* a token that is not an integer.
\* read_block_index(fd, index_offset) -> list of offsets, FormatError when the
\* structure is not a well-formed list of offsets
read_block_index(strm, index_offset) ==
    index_parsed(fd_read(strm, index_offset, Len(INDEX_HEADER)),
                 fd_read_all(strm, index_offset + Len(INDEX_HEADER)))

(***************************************************************************)
(* ReadBlock                                                               *)
(***************************************************************************)
\* ReadBlock.__init__: the fields as assigned; the constructor's closing
\* "if not lazy_load: self.load()" is applied where a handle is constructed
ReadBlockFields(offset, memmap, lazy_load, validate_checksum, header, data_offset, data) ==
    [offset |-> offset, header |-> header, data_offset |-> data_offset, data |-> data,
     cached_data |-> None, memmap |-> memmap, lazy_load |-> lazy_load,
     validate_checksum |-> validate_checksum]

\* ReadBlock.loaded
loaded(h) == ~IsNone(h.data)

\* is_closed() not asked
source_dead_only(fd) == fd.state = "dead"

\* "fd is None or fd.is_closed()": the weak reference is dead or the source closed
source_gone(fd) == fd.state # "open"

\* only the payload stored
load_assign_data_only(h, r) == [h EXCEPT !.data = r.data]

\* the assignment of read_block's result in load()
load_assign(h, r) ==
    [h EXCEPT !.header = r.header, !.data_offset = r.data_offset, !.data = r.data]

\* load() behind its call r of read_block: the cursor is restored when the
\* call returns
load_read(h, fd, r) ==
    IF ~IsNone(r.err)
    THEN [err |-> r.err, h |-> h, pos |-> r.pos, calls |-> <<"tell">> \o r.calls]
    ELSE [err |-> None, h |-> load_assign(h, r), pos |-> fd.pos,
          calls |-> <<"tell">> \o r.calls \o <<"seek">>]

\* load() without the test of self.loaded
load_unguarded(h, strm, fd, seekable) ==
    IF source_gone(fd)
    THEN [err |-> Some("OSError"), h |-> h, pos |-> fd.pos, calls |-> <<>>]
    ELSE load_read(h, fd, read_block(strm, fd.pos, Some(h.offset), h.memmap, h.lazy_load,
                                     seekable))

\* ReadBlock.load().  A source that is not open raises on tell().
load(h, strm, fd, seekable) ==
    IF loaded(h)
    THEN [err |-> None, h |-> h, pos |-> fd.pos, calls |-> <<>>]
    ELSE IF source_gone(fd)
    THEN [err |-> Some("OSError"), h |-> h, pos |-> fd.pos, calls |-> <<>>]
    ELSE IF fd.state # "open"
    THEN [err |-> Some("ValueError"), h |-> h, pos |-> fd.pos, calls |-> <<"tell">>]
    ELSE load_read(h, fd, read_block(strm, fd.pos, Some(h.offset), h.memmap, h.lazy_load,
                                     seekable))

callback_read(d) ==
    [err |-> d.err, bytes |-> d.bytes, calls |-> <<"tell", "seek", "read", "seek">>]

\* the deferred producer read_block returns for a lazy, seekable source: it
\* fails on a closed source, reads the payload at data_offset and restores
\* the cursor
callback(h, strm, fd) ==
    IF fd.state # "open"
    THEN [err |-> Some("OSError"), bytes |-> <<>>, calls |-> <<>>]
    ELSE callback_read(read_block_data(strm, Val(h.header), Val(h.data_offset)))

\* the digests never compared
checksum_never_differs(checksum, hdr) == FALSE

\* "checksum != self._header['checksum']"
checksum_differs(checksum, hdr) == checksum # hdr.checksum

\* the flag left set
validate_kept == TRUE

\* what validate_checksum is set to after a successful comparison
validate_after_success == FALSE

data_fail(e, h, p, calls, sum) ==
    [err |-> e, value |-> <<>>, h |-> h, pos |-> p, calls |-> calls, checksummed |-> sum]

\* the flag cleared before the comparison: a failed verification leaves it false
data_verify_flag_first(h, p, calls, r) ==
    IF ~IsNone(r.err) THEN data_fail(r.err, h, p, calls \o r.calls, FALSE)
    ELSE IF h.validate_checksum
    THEN IF checksum_differs(calculate_block_checksum(r.bytes), Val(h.header))
         THEN data_fail(Some("ValueError"), [h EXCEPT !.validate_checksum = FALSE], p,
                        calls \o r.calls, TRUE)
         ELSE [err |-> None, value |-> r.bytes,
               h |-> [h EXCEPT !.validate_checksum = FALSE],
               pos |-> p, calls |-> calls \o r.calls, checksummed |-> TRUE]
    ELSE [err |-> None, value |-> r.bytes, h |-> h, pos |-> p, calls |-> calls \o r.calls,
          checksummed |-> FALSE]

\* lines 48-55 with the payload r resolved
data_verify(h, p, calls, r) ==
    IF ~IsNone(r.err) THEN data_fail(r.err, h, p, calls \o r.calls, FALSE)
    ELSE IF h.validate_checksum
    THEN IF checksum_differs(calculate_block_checksum(r.bytes), Val(h.header))
         THEN data_fail(Some("ValueError"), h, p, calls \o r.calls, TRUE)
         ELSE [err |-> None, value |-> r.bytes,
               h |-> [h EXCEPT !.validate_checksum = validate_after_success],
               pos |-> p, calls |-> calls \o r.calls, checksummed |-> TRUE]
    ELSE [err |-> None, value |-> r.bytes, h |-> h, pos |-> p, calls |-> calls \o r.calls,
          checksummed |-> FALSE]

\* lines 44-47 behind the load l
data_resolve(l, strm, fd) ==
    IF ~IsNone(l.err) THEN data_fail(l.err, l.h, l.pos, l.calls, FALSE)
    ELSE data_verify(l.h, l.pos, l.calls,
                     IF Val(l.h.data).kind = "callback"
                     THEN callback(l.h, strm, [fd EXCEPT !.pos = l.pos])
                     ELSE [err |-> None, bytes |-> Val(l.h.data).bytes, calls |-> <<>>])

\* ReadBlock.data: load, resolve, verify once
data(h, strm, fd, seekable) == data_resolve(load(h, strm, fd, seekable), strm, fd)

cached_store(r) ==
    IF ~IsNone(r.err) THEN r ELSE [r EXCEPT !.h = [r.h EXCEPT !.cached_data = Some(r.value)]]

\* cached_data without the test of self._cached_data
cached_data_unretained(h, strm, fd, seekable) == cached_store(data(h, strm, fd, seekable))

\* ReadBlock.cached_data
cached_data(h, strm, fd, seekable) ==
    IF IsNone(h.cached_data) THEN cached_store(data(h, strm, fd, seekable))
    ELSE [err |-> None, value |-> Val(h.cached_data), h |-> h, pos |-> fd.pos,
          calls |-> <<>>, checksummed |-> FALSE]

header_loaded(l) ==
    [err |-> l.err, value |-> IF IsNone(l.err) THEN l.h.header ELSE <<>>,
     h |-> l.h, pos |-> l.pos, calls |-> l.calls, checksummed |-> FALSE]

\* ReadBlock.header
header(h, strm, fd, seekable) == header_loaded(load(h, strm, fd, seekable))

construct(h, strm, fd, seekable) ==
    IF ~h.lazy_load THEN load(h, strm, fd, seekable)
    ELSE [err |-> None, h |-> h, pos |-> fd.pos, calls |-> <<>>]

\* the constructor: the fields, then load() unless lazy_load
ReadBlock(offset, memmap, lazy_load, validate_checksum, hdr, data_offset, dat, strm, fd, seekable) ==
    construct(ReadBlockFields(offset, memmap, lazy_load, validate_checksum, hdr, data_offset, dat),
              strm, fd, seekable)

(***************************************************************************)
(* read_blocks_serially                                                    *)
(***************************************************************************)
\* the arguments of a call of read_blocks_serially
SerialCall(memmap, lazy_load, validate_checksums, after_magic) ==
    [memmap |-> memmap, lazy_load |-> lazy_load,
     validate_checksums |-> validate_checksums, after_magic |-> after_magic]

\* the locals on entry: blocks = [], buff = b""
serial_enter(call) ==
    [blocks |-> <<>>, buff |-> <<>>, after_magic |-> call.after_magic,
     memmap |-> call.memmap, lazy_load |-> call.lazy_load,
     validate_checksums |-> call.validate_checksums,
     status |-> "run", branch |-> "enter", chunk |-> <<>>, calls |-> <<>>]

\* invalid_bytes without the test of len(blocks)
invalid_bytes_first_only(blocks, buff) == buff[1] # 0

\* "len(blocks) or buff[0] != 0": the chunk is no padding
invalid_bytes(blocks, buff) == Len(blocks) > 0 \/ buff[1] # 0

\* the streamed flag never tested
streamed_flag_ignored(hdr) == FALSE

\* the streamed flag taken as set in every header
streamed_flag_always(hdr) == TRUE

\* "blocks[-1].header['flags'] & constants.BLOCK_FLAG_STREAMED"
streamed_flag_set(hdr) == (hdr.flags % (2 * BLOCK_FLAG_STREAMED)) >= BLOCK_FLAG_STREAMED

\* the locals and the cursor after an iteration: status "run" to go on, "ok"
\* for a break, "OSError" for a raise; branch names the arm taken and chunk
\* the buffer that was compared
iter_out(loc, chunk, st, br, bl, bf, am, p, calls) ==
    [loc |-> [loc EXCEPT !.status = st, !.branch = br, !.blocks = bl, !.buff = bf,
                         !.after_magic = am, !.chunk = chunk, !.calls = calls],
     pos |-> p]

\* lines 96-101 with the header hd of the appended handle
iter_appended(loc, buff, calls, hd) ==
    IF ~IsNone(hd.err)
    THEN iter_out(loc, buff, Val(hd.err), "block", loc.blocks, buff, loc.after_magic, hd.pos,
                  calls \o hd.calls)
    ELSE IF streamed_flag_set(Val(hd.value))
    THEN iter_out(loc, buff, "ok", "block", Append(loc.blocks, hd.h), buff, loc.after_magic,
                  hd.pos, calls \o hd.calls)
    ELSE iter_out(loc, buff, "run", "block", Append(loc.blocks, hd.h), <<>>, FALSE, hd.pos,
                  calls \o hd.calls)

\* lines 91-96 with the constructed handle c
iter_constructed(loc, buff, calls, strm, fd, seekable, c) ==
    IF ~IsNone(c.err)
    THEN iter_out(loc, buff, Val(c.err), "block", loc.blocks, buff, loc.after_magic, c.pos,
                  calls \o c.calls)
    ELSE iter_appended(loc, buff, calls \o c.calls,
                       header(c.h, strm, [fd EXCEPT !.pos = c.pos], seekable))

\* lines 90-95 with the block r that read_block returned
iter_block(loc, buff, calls, strm, fd, seekable, r) ==
    IF ~IsNone(r.err)
    THEN iter_out(loc, buff, Val(r.err), "block", loc.blocks, buff, loc.after_magic, r.pos,
                  calls \o r.calls)
    ELSE iter_constructed(loc, buff, calls \o r.calls, strm, fd, seekable,
                          ReadBlock(r.offset, loc.memmap, loc.lazy_load,
                                    loc.validate_checksums, r.header, r.data_offset, r.data,
                                    strm, [fd EXCEPT !.pos = r.pos], seekable))

\* the chunk compared with the whole index header
index_marker_unsliced(buff) == buff = INDEX_HEADER

\* line 84, "buff == constants.INDEX_HEADER[:magic_len]"
index_marker_hit(buff) == buff = Prefix(INDEX_HEADER, magic_len)

\* lines 79-109 with the buffer buff and the cursor at pos1
iter_chunk(loc, buff, pos1, calls, strm, fd, seekable) ==
    IF ~loc.after_magic /\ Len(buff) < magic_len
    THEN iter_out(loc, buff, "ok", "eof", loc.blocks, buff, loc.after_magic, pos1, calls)
    ELSE IF index_marker_hit(buff)
    THEN iter_out(loc, buff, "ok", "index", loc.blocks, buff, loc.after_magic, pos1, calls)
    ELSE IF loc.after_magic \/ buff = BLOCK_MAGIC
    THEN iter_block(loc, buff, calls, strm, fd, seekable,
                    read_block(strm, pos1, None, loc.memmap, loc.lazy_load, seekable))
    ELSE IF invalid_bytes(loc.blocks, buff)
    THEN iter_out(loc, buff, "OSError", "invalid", loc.blocks, buff, loc.after_magic, pos1, calls)
    ELSE iter_out(loc, buff, "run", "padding", loc.blocks, Strip0(buff), loc.after_magic,
                  pos1, calls)

\* line 78 with the cells got that fd.read returned
iter_read(loc, got, strm, fd, seekable) ==
    iter_chunk(loc, loc.buff \o got, fd.pos + Len(got), <<"read">>, strm, fd, seekable)

\* One iteration of the while loop.
serial_iter(loc, strm, fd, seekable) ==
    IF loc.after_magic THEN iter_chunk(loc, loc.buff, fd.pos, <<>>, strm, fd, seekable)
    ELSE iter_read(loc, fd_read(strm, fd.pos, magic_len - Len(loc.buff)), strm, fd, seekable)

\* the whole call: the loop run to its break or raise
RECURSIVE serial_loop(_, _, _, _)
serial_continue(s, strm, fd, seekable) ==
    serial_loop(s.loc, strm, [fd EXCEPT !.pos = s.pos], seekable)

serial_loop(loc, strm, fd, seekable) ==
    IF loc.status # "run" THEN [loc |-> loc, pos |-> fd.pos]
    ELSE serial_continue(serial_iter(loc, strm, fd, seekable), strm, fd, seekable)

read_blocks_serially(strm, fd, seekable, call) ==
    serial_loop(serial_enter(call), strm, fd, seekable)

(***************************************************************************)
(* read_blocks: the index-accelerated path                                 *)
(***************************************************************************)
\* the marker not skipped
handle_offset_at_marker(entry) == entry

\* "offset + magic_len": a handle's offset skips the marker
handle_offset(entry) == entry + magic_len

\* every entry checked
spot_check_every(n) == [k \in 1..n |-> k]

\* only the first entry checked
spot_check_first_only(n) == <<1>>

\* "for index in (0, -1)": the entries that are checked, as positions 1..n
spot_check_positions(n) == <<1, n>>

\* the call of read_blocks_serially on the paths of lines 116, 124 and 132
fallback_call(memmap, lazy_load, validate_checksums, after_magic) ==
    SerialCall(memmap, lazy_load, validate_checksums, after_magic)

\* the call of line 147, read_blocks_serially(fd, memmap, lazy_load, after_magic):
\* after_magic is passed in the place of validate_checksums
spot_fallback_call(memmap, lazy_load, validate_checksums, after_magic) ==
    SerialCall(memmap, lazy_load, after_magic, FALSE)

\* the handles of line 135, every one unloaded
index_blocks(block_index, memmap, lazy_load, validate_checksums, strm, fd, seekable) ==
    [k \in 1..Len(block_index) |->
        ReadBlock(handle_offset(block_index[k]), memmap, lazy_load, validate_checksums,
                  None, None, None, strm, fd, seekable).h]

RECURSIVE spot_check(_, _, _, _, _, _)

\* what the spot check did at position k of the index: compared the cells at
\* the entry with the marker, or called load() of the handle
spot_event(op, k, at) == <<[op |-> op, k |-> k, at |-> at]>>

spot_after(ev, r) == [r EXCEPT !.trace = ev \o @]

\* line 144 with the load l of the checked handle
spot_loaded(todo, block_index, blocks, strm, fd, seekable, l) ==
    IF ~IsNone(l.err)
    THEN [err |-> l.err, why |-> "load", blocks |-> blocks, pos |-> l.pos,
          trace |-> spot_event("load", todo[1], blocks[todo[1]].offset)]
    ELSE spot_after(spot_event("load", todo[1], blocks[todo[1]].offset),
                    spot_check(Tail(todo), block_index, [blocks EXCEPT ![todo[1]] = l.h], strm,
                               [fd EXCEPT !.pos = l.pos], seekable))

\* lines 141-144 with the cells buff read at the entry
spot_marker(todo, block_index, blocks, strm, fd, seekable, buff) ==
    IF buff # BLOCK_MAGIC
    THEN [err |-> Some("OSError"), why |-> "magic", blocks |-> blocks,
          pos |-> block_index[todo[1]] + Len(buff),
          trace |-> spot_event("compare", todo[1], block_index[todo[1]])]
    ELSE spot_after(spot_event("compare", todo[1], block_index[todo[1]]),
                    spot_loaded(todo, block_index, blocks, strm, fd, seekable,
                                load(blocks[todo[1]], strm,
                                     [fd EXCEPT !.pos = block_index[todo[1]] + Len(buff)],
                                     seekable)))

\* the body of the try of lines 136-144 for the positions todo: seek to the
\* entry, compare the marker, load the handle
spot_check(todo, block_index, blocks, strm, fd, seekable) ==
    IF todo = <<>>
    THEN [err |-> None, why |-> "none", blocks |-> blocks, pos |-> fd.pos, trace |-> <<>>]
    ELSE spot_marker(todo, block_index, blocks, strm, fd, seekable,
                     fd_read(strm, block_index[todo[1]], magic_len))

(***************************************************************************)
(* Streams: leading cells, blocks, trailing cells, a block index.          *)
(***************************************************************************)
used_size_of(k) == 1 + (k % 2)
slack_of(k) == IF k % 2 = 0 THEN 1 ELSE 0
payload_of(k) == [j \in 1..used_size_of(k) |-> 10 * k + j]

\* block k as written: marker, header, payload, unused allocated cells; flip
\* changes one payload cell after the checksum was computed
block_bytes(k, streamed, flip) ==
    LET pay == payload_of(k)
        body == IF flip THEN [pay EXCEPT ![1] = @ + 1] ELSE pay
        hdr == IF streamed
               THEN <<BLOCK_FLAG_STREAMED, 0, 0, 0, 0, calculate_block_checksum(pay)>>
               ELSE <<0, 0, used_size_of(k) + slack_of(k), used_size_of(k), used_size_of(k),
                      calculate_block_checksum(pay)>>
    IN  BLOCK_MAGIC \o hdr \o body \o (IF streamed THEN <<>> ELSE Zeros(slack_of(k)))

RECURSIVE blocks_bytes(_, _, _)
blocks_bytes(n, streamedAt, flip) ==
    IF n = 0 THEN <<>>
    ELSE blocks_bytes(n - 1, streamedAt, flip) \o block_bytes(n, streamedAt = n, flip = n)

\* the positions of the markers of blocks 1..n behind a padding of lead cells
marker_offsets(n, lead) ==
    [k \in 1..n |-> lead + Len(blocks_bytes(k - 1, 0, 0))]

drop_entry(offs, i) == [k \in 1..(Len(offs) - 1) |-> IF k < i THEN offs[k] ELSE offs[k + 1]]

\* the entries of an index: right, one entry off by a cell, one entry missing
index_entries(ix, n, lead) ==
    LET offs == marker_offsets(n, lead)
    IN  CASE ix.kind = "valid" -> offs
          [] ix.kind = "stale" -> [offs EXCEPT ![ix.i] = @ + 1]
          [] ix.kind = "drop" -> drop_entry(offs, ix.i)
          [] OTHER -> <<255>>

index_bytes(ix, n, lead) ==
    IF ix.kind = "none" THEN <<>> ELSE INDEX_HEADER \o index_entries(ix, n, lead)

stream_of(d) ==
    d.pad \o blocks_bytes(d.n, d.streamedAt, d.flip) \o d.tail
          \o index_bytes(d.index, d.n, Len(d.pad))

NoIndex == [kind |-> "none", i |-> 0]
ValidIndex == [kind |-> "valid", i |-> 0]
IndexKinds(n) ==
    {ValidIndex, [kind |-> "garbage", i |-> 0]}
        \cup {[kind |-> kd, i |-> i] : kd \in {"stale", "drop"}, i \in 1..n}

Pads == UNION {[1..k -> {0, 1}] : k \in 0..MaxPad}
Tails == {<<>>, <<0, 0, 0, 0>>, <<0, 1>>, <<9, 9, 9, 9>>, <<35, 65, 83, 68, 1>>}

Desc(pad, n, streamedAt, flip, tail, index) ==
    [pad |-> pad, n |-> n, streamedAt |-> streamedAt, flip |-> flip, tail |-> tail,
     index |-> index]

\* padded streams without an index
PadDescs == {Desc(pad, n, 0, 0, <<>>, NoIndex) : pad \in Pads, n \in 0..1}
\* streams with an index section
IndexDescs ==
    UNION {{Desc(<<>>, n, 0, 0, <<>>, ix) : ix \in IndexKinds(n)}
             \cup {Desc(<<>>, n, 0, f, <<>>, ValidIndex) : f \in 1..n}
             \cup {Desc(Zeros(MaxPad), n, 0, 0, <<>>, ValidIndex)} : n \in 0..MaxBlocks}
\* streams with a streamed block or trailing cells
TailDescs ==
    {Desc(<<>>, n, st, 0, tail, NoIndex) : n \in 0..MaxBlocks, st \in 0..MaxBlocks, tail \in Tails}

Descs == PadDescs \cup IndexDescs \cup {d \in TailDescs : d.streamedAt <= d.n}

Args == [memmap : BOOLEAN, lazy_load : BOOLEAN, validate_checksums : BOOLEAN,
         after_magic : BOOLEAN, seekable : BOOLEAN]

starts_with_magic(strm) == Prefix(strm, magic_len) = BLOCK_MAGIC

(***************************************************************************)
(* State                                                                   *)
(***************************************************************************)
VARIABLES
    desc,       \* how the stream was written
    stream,     \* the cells of the byte source
    args,       \* read_blocks' arguments, and whether the source is seekable
    fd,         \* the byte source: its cursor, and "open", "closed" or "dead"
    pc,         \* "start", "scan" (inside read_blocks_serially), "done", "error"
    path,       \* the branch read_blocks took
    call,       \* the arguments read_blocks_serially was called with, or None
    sc,         \* the locals of read_blocks_serially
    blocks,     \* the sequence read_blocks returned
    result,     \* "none", "ok", or the exception that left read_blocks
    last        \* the most recent operation: its outcome and its calls on fd

vars == <<desc, stream, args, fd, pc, path, call, sc, blocks, result, last>>

\* the position of the source when read_blocks is called: behind the first
\* marker when the caller has consumed it
starting_position(a) == IF a.after_magic THEN magic_len ELSE 0

Idle == [serial_enter(SerialCall(FALSE, FALSE, FALSE, FALSE)) EXCEPT !.status = "idle"]

\* the record of an operation: what it was, on which handle, the exception it
\* raised or None, what it returned, its calls on fd, whether it computed a
\* checksum, the cursor and the state of the source when it was entered, and
\* the operation before it when that was an access to the payload of the same
\* handle
Op(op, i, err, value, calls, checksummed) ==
    [op |-> op, i |-> i, err |-> err, value |-> value, calls |-> calls,
     checksummed |-> checksummed, pos0 |-> fd.pos, state0 |-> fd.state,
     prev |-> IF last.i = i /\ last.op \in {"data", "cached_data"}
              THEN [op |-> last.op, err |-> last.err]
              ELSE [op |-> "other", err |-> None]]

InitWith(d, a) ==
    /\ desc = d
    /\ stream = stream_of(d)
    /\ args = a
    /\ a.after_magic => starts_with_magic(stream_of(d))
    /\ fd = [pos |-> starting_position(a), state |-> "open"]
    /\ pc = "start"
    /\ path = "none"
    /\ call = None
    /\ sc = Idle
    /\ blocks = <<>>
    /\ result = "none"
    /\ last = [op |-> "none", i |-> 0, err |-> None, value |-> <<>>, calls |-> <<>>,
               checksummed |-> FALSE, pos0 |-> starting_position(a), state0 |-> "open",
               prev |-> [op |-> "other", err |-> None]]

Init == \E d \in Descs, a \in Args : InitWith(d, a)

(***************************************************************************)
(* read_blocks                                                             *)
(***************************************************************************)
\* "return read_blocks_serially(...)": the call is entered at position pos
EnterSerial(c, p, pos, calls) ==
    /\ call' = Some(c)
    /\ sc' = serial_enter(c)
    /\ pc' = "scan"
    /\ path' = p
    /\ fd' = [fd EXCEPT !.pos = pos]
    /\ last' = Op("read_blocks", 0, None, <<>>, calls, FALSE)
    /\ UNCHANGED <<desc, stream, args, blocks, result>>

Leave(p, res, bl, pos, calls) ==
    /\ pc' = IF res = "ok" THEN "done" ELSE "error"
    /\ path' = p
    /\ result' = res
    /\ blocks' = bl
    /\ fd' = [fd EXCEPT !.pos = pos]
    /\ last' = Op("read_blocks", 0, IF res = "ok" THEN None ELSE Some(res), <<>>, calls, FALSE)
    /\ UNCHANGED <<desc, stream, args, call, sc>>

\* the index path taken for every lazy read, seekable() not asked
index_path_if_lazy(lazy_load, seekable) == lazy_load

\* line 114, "if not lazy_load or not fd.seekable()", negated: the condition
\* of the index-accelerated path
index_path_chosen(lazy_load, seekable) == lazy_load /\ seekable

\* lines 114-116: not lazy, or the source is not seekable
ReadBlocksDirect ==
    /\ pc = "start"
    /\ ~index_path_chosen(args.lazy_load, args.seekable)
    /\ EnterSerial(fallback_call(args.memmap, args.lazy_load, args.validate_checksums,
                                 args.after_magic),
                   "direct", fd.pos, IF args.lazy_load THEN <<"seekable">> ELSE <<>>)

IndexPath == pc = "start" /\ index_path_chosen(args.lazy_load, args.seekable)

\* lines 119-124: no block index is found
ReadBlocksNoIndex ==
    /\ IndexPath
    /\ IsNone(find_block_index(stream, fd.pos))
    /\ EnterSerial(fallback_call(args.memmap, args.lazy_load, args.validate_checksums,
                                 args.after_magic),
                   "noindex", fd.pos, <<"seekable", "tell", "seek", "read", "seek">>)

\* lines 127-132: the block index cannot be read
ReadBlocksBadIndex ==
    /\ IndexPath
    /\ ~IsNone(find_block_index(stream, fd.pos))
    /\ ~IsNone(read_block_index(stream, Val(find_block_index(stream, fd.pos))).err)
    /\ EnterSerial(fallback_call(args.memmap, args.lazy_load, args.validate_checksums,
                                 args.after_magic),
                   "badindex", fd.pos, <<"seekable", "tell", "seek", "read", "seek", "read", "seek">>)

\* the index as read on the path of lines 133-148
IndexRead == read_block_index(stream, Val(find_block_index(stream, fd.pos))).index
IndexIsRead ==
    /\ IndexPath
    /\ ~IsNone(find_block_index(stream, fd.pos))
    /\ IsNone(read_block_index(stream, Val(find_block_index(stream, fd.pos))).err)

IndexBuilt ==
    index_blocks(IndexRead, args.memmap, args.lazy_load, args.validate_checksums, stream,
                 fd, args.seekable)
SpotChecked ==
    spot_check(spot_check_positions(Len(IndexRead)), IndexRead, IndexBuilt, stream, fd,
               args.seekable)

\* line 139 on an index without entries: block_index[0] raises IndexError,
\* which the except clause of line 145 does not name
ReadBlocksEmptyIndex ==
    /\ IndexIsRead
    /\ Len(IndexRead) = 0
    /\ Leave("emptyindex", "IndexError", <<>>, Len(stream),
             <<"seekable", "tell", "seek", "read", "seek", "read">>)

\* lines 145-147: a checked entry is no marker, or its handle does not load
ReadBlocksSpotCheckFailed ==
    /\ IndexIsRead
    /\ Len(IndexRead) > 0
    /\ ~IsNone(SpotChecked.err)
    /\ EnterSerial(spot_fallback_call(args.memmap, args.lazy_load, args.validate_checksums,
                                      args.after_magic),
                   IF SpotChecked.why = "magic" THEN "spot_magic" ELSE "spot_load", fd.pos,
                   <<"seekable", "tell", "seek", "read", "seek", "read", "seek", "read", "seek">>)

\* line 148: the index is trusted
ReadBlocksIndexed ==
    /\ IndexIsRead
    /\ Len(IndexRead) > 0
    /\ IsNone(SpotChecked.err)
    /\ Leave("index", "ok", SpotChecked.blocks, SpotChecked.pos,
             <<"seekable", "tell", "seek", "read", "seek", "read", "seek", "read">>)

\* one iteration of the loop of read_blocks_serially, and its return or raise
SerialStep ==
    /\ pc = "scan"
    /\ LET s == serial_iter(sc, stream, fd, args.seekable)
       IN  /\ sc' = s.loc
           /\ fd' = [fd EXCEPT !.pos = s.pos]
           /\ pc' = CASE s.loc.status = "run" -> "scan"
                      [] s.loc.status = "ok" -> "done"
                      [] OTHER -> "error"
           /\ result' = IF s.loc.status = "run" THEN result ELSE s.loc.status
           /\ blocks' = IF s.loc.status = "ok" THEN s.loc.blocks ELSE blocks
           /\ last' = Op("serial", 0, None, <<>>, s.loc.calls, FALSE)
    /\ UNCHANGED <<desc, stream, args, path, call>>

Next ==
    \/ ReadBlocksDirect
    \/ ReadBlocksNoIndex
    \/ ReadBlocksBadIndex
    \/ ReadBlocksEmptyIndex
    \/ ReadBlocksSpotCheckFailed
    \/ ReadBlocksIndexed
    \/ SerialStep

Spec == Init /\ [][Next]_vars

(***************************************************************************)
(* The caller's use of the returned handles, and the source going away     *)
(***************************************************************************)
Returned == pc = "done" /\ result = "ok"

\* an accessor of handle i returned or raised as r says
HandleOp(op, i, r) ==
    /\ blocks' = [blocks EXCEPT ![i] = r.h]
    /\ fd' = [fd EXCEPT !.pos = r.pos]
    /\ last' = Op(op, i, r.err, r.value, r.calls, r.checksummed)
    /\ UNCHANGED <<desc, stream, args, pc, path, call, sc, result>>

load_op(l) ==
    [err |-> l.err, value |-> <<>>, h |-> l.h, pos |-> l.pos, calls |-> l.calls,
     checksummed |-> FALSE]

\* blocks[i].load()
Load(i) ==
    /\ Returned
    /\ HandleOp("load", i, load_op(load(blocks[i], stream, fd, args.seekable)))

\* blocks[i].data
Data(i) ==
    /\ Returned
    /\ HandleOp("data", i, data(blocks[i], stream, fd, args.seekable))

\* blocks[i].cached_data
CachedData(i) ==
    /\ Returned
    /\ HandleOp("cached_data", i, cached_data(blocks[i], stream, fd, args.seekable))

\* blocks[i].header
Header(i) ==
    /\ Returned
    /\ HandleOp("header", i, header(blocks[i], stream, fd, args.seekable))

\* the caller closes the source
Close ==
    /\ Returned
    /\ fd.state = "open"
    /\ fd' = [fd EXCEPT !.state = "closed"]
    /\ last' = Op("close", 0, None, <<>>, <<>>, FALSE)
    /\ UNCHANGED <<desc, stream, args, pc, path, call, sc, blocks, result>>

\* the source is destroyed: the handles' weak references are dead
Destroy ==
    /\ Returned
    /\ fd.state # "dead"
    /\ fd' = [fd EXCEPT !.state = "dead"]
    /\ last' = Op("destroy", 0, None, <<>>, <<>>, FALSE)
    /\ UNCHANGED <<desc, stream, args, pc, path, call, sc, blocks, result>>

NextHandles ==
    \/ Next
    \/ \E i \in 1..Len(blocks) : Load(i)
    \/ \E i \in 1..Len(blocks) : Data(i)
    \/ \E i \in 1..Len(blocks) : CachedData(i)
    \/ \E i \in 1..Len(blocks) : Header(i)
    \/ Close
    \/ Destroy

\* unpadded streams of MaxBlocks blocks: with a right index and at most one of
\* the first two payloads changed, without an index, with an index that cannot
\* be parsed or has its first or second entry wrong; and the stream of no
\* blocks with an empty index
HandleDescs ==
    {Desc(<<>>, MaxBlocks, 0, f, <<>>, ValidIndex) : f \in 0..2}
        \cup {Desc(<<>>, MaxBlocks, 0, 0, <<>>, ix) :
                 ix \in {NoIndex, [kind |-> "garbage", i |-> 0],
                         [kind |-> "stale", i |-> 1], [kind |-> "stale", i |-> 2]}}
        \cup {Desc(<<>>, 0, 0, 0, <<>>, ValidIndex)}

HandleArgs == {a \in Args : a.seekable /\ ~a.memmap /\ ~a.after_magic}

InitHandles == \E d \in HandleDescs, a \in HandleArgs : InitWith(d, a)

SpecHandles == InitHandles /\ [][NextHandles]_vars

(***************************************************************************)
(* Properties                                                              *)
(***************************************************************************)
Terminated == pc \in {"done", "error"}

Offsets(bl) == [k \in 1..Len(bl) |-> bl[k].offset]

AllZero(s) == \A j \in 1..Len(s) : s[j] = 0

\* the caller's flags as a call of read_blocks_serially
CallerCall ==
    SerialCall(args.memmap, args.lazy_load, args.validate_checksums, args.after_magic)

\* read_blocks_serially from the starting position with the caller's flags
Reference ==
    read_blocks_serially(stream, [pos |-> starting_position(args), state |-> "open"],
                         args.seekable, CallerCall).loc

\* the block index of the stream, as read from the starting position
TheIndex ==
    read_block_index(stream, Val(find_block_index(stream, starting_position(args)))).index

FellBack == path \in {"noindex", "badindex", "spot_magic", "spot_load"}

\* C1 (as claimed): on every fallback path of read_blocks the serial scanner is
\* called with the caller's memmap, lazy_load, validate_checksums and
\* after_magic, and the outcome is that of read_blocks_serially from the
\* starting position with these flags: the same error, or handles with the same
\* offsets and a validate_checksum flag equal to the caller's.
C1_FallbackIsSerial ==
    FellBack =>
        /\ call = Some(CallerCall)
        /\ Terminated =>
            /\ result = Reference.status
            /\ result = "ok" =>
                /\ Offsets(blocks) = Offsets(Reference.blocks)
                /\ \A k \in 1..Len(blocks) :
                       blocks[k].validate_checksum = args.validate_checksums

\* the scanner has just compared a marker-length chunk that is neither marker
ChunkIsNeither ==
    /\ sc.branch \in {"padding", "invalid"}
    /\ Len(sc.chunk) = magic_len
    /\ sc.chunk # BLOCK_MAGIC
    /\ sc.chunk # Prefix(INDEX_HEADER, magic_len)

ScanFailed == sc.status = "OSError" /\ pc = "error" /\ result = "OSError" /\ blocks = <<>>

\* C3 (as claimed): a chunk that matches neither marker is accepted only if no
\* block has been found and every byte of it is zero; otherwise the scan fails
\* with OSError and returns no sequence.
C3_AllBytesZero ==
    ChunkIsNeither =>
        IF Len(sc.blocks) = 0 /\ AllZero(sc.chunk) THEN sc.status = "run" ELSE ScanFailed

\* C3 (amended): a chunk that matches neither marker is accepted exactly when no
\* block has been found and its first byte is zero, and then its zero bytes are
\* stripped from both ends and the rest is kept as the start of the next chunk;
\* otherwise the scan fails with OSError and returns no sequence.
C3_FirstByteZero ==
    /\ sc.branch \in {"padding", "invalid"} => ChunkIsNeither
    /\ ChunkIsNeither =>
        IF Len(sc.blocks) = 0 /\ sc.chunk[1] = 0
        THEN sc.status = "run" /\ sc.branch = "padding" /\ sc.buff = Strip0(sc.chunk)
        ELSE ScanFailed /\ sc.branch = "invalid"

\* a chunk with a non-zero byte was accepted as padding
C3_Witness == ChunkIsNeither /\ sc.status = "run" /\ ~AllZero(sc.chunk)

\* a block was found and a later chunk that is neither marker ended the scan
C3_WitnessAfterBlock == ChunkIsNeither /\ Len(sc.blocks) > 0 /\ ScanFailed

IndexReturned == path = "index" /\ pc = "done"

MarkerAt(p) == fd_read(stream, p, magic_len) = BLOCK_MAGIC

\* C4 (as claimed): a sequence built from the index has every handle right
\* behind a block marker and the length and offsets of a serial scan.
C4_IndexEqualsSerial ==
    IndexReturned =>
        /\ \A k \in 1..Len(blocks) : MarkerAt(blocks[k].offset - magic_len)
        /\ Reference.status = "ok"
        /\ Offsets(blocks) = Offsets(Reference.blocks)

\* C4 (amended): a sequence built from the index has one handle per index entry,
\* at entry + marker length; the first and the last entry are positions of
\* bytes equal to the block marker and their handles are loaded with the header
\* parsed there.  Interior entries are not checked.
C4_EndpointsChecked ==
    IndexReturned =>
        /\ Len(blocks) = Len(TheIndex)
        /\ Len(blocks) > 0
        /\ \A k \in 1..Len(blocks) : blocks[k].offset = TheIndex[k] + magic_len
        /\ \A k \in {1, Len(blocks)} :
            /\ MarkerAt(TheIndex[k])
            /\ loaded(blocks[k])
            /\ blocks[k].header = read_block_header(stream, blocks[k].offset).header
            /\ ~IsNone(blocks[k].header)

\* an index with a wrong interior entry or a missing entry was trusted
C4_Witness ==
    /\ IndexReturned
    /\ Reference.status = "ok"
    /\ Offsets(blocks) # Offsets(Reference.blocks)

\* C5 (as claimed): when the first or last index entry is no marker, read_blocks
\* does not raise and returns the handles a serial scan from the start yields.
C5_SpotCheckFallback ==
    (path = "spot_magic" /\ Terminated) =>
        /\ result = "ok"
        /\ Reference.status = "ok"
        /\ Len(blocks) = desc.n
        /\ Offsets(blocks) = Offsets(Reference.blocks)

\* a stream of N >= 0 blocks, written without fault, with the index of its markers
WellFormedWithIndex ==
    /\ desc.index = ValidIndex
    /\ desc.flip = 0 /\ desc.streamedAt = 0 /\ desc.tail = <<>>
    /\ AllZero(desc.pad)

\* such a stream of N >= 1 blocks
WellFormedIndexed == WellFormedWithIndex /\ desc.n >= 1

RestingSource == [pos |-> fd.pos, state |-> "open"]

\* what forcing a handle yields: the header and the payload bytes, or the error
Forced(h) ==
    <<header(h, stream, RestingSource, args.seekable).err,
      header(h, stream, RestingSource, args.seekable).value,
      data(h, stream, RestingSource, args.seekable).err,
      data(h, stream, RestingSource, args.seekable).value>>

\* C6 (as claimed): for every well-formed stream of N blocks followed by a valid
\* index, read_blocks on a lazy, seekable source returns N handles with the
\* offsets of the handles a serial scan of the same bytes returns, and forcing
\* either yields the same header and payload bytes.
C6_EveryIndexedStream ==
    (WellFormedWithIndex /\ args.lazy_load /\ args.seekable /\ Terminated) =>
        /\ result = "ok"
        /\ Len(blocks) = desc.n
        /\ Reference.status = "ok"
        /\ Offsets(blocks) = Offsets(Reference.blocks)
        /\ \A k \in 1..Len(blocks) : Forced(blocks[k]) = Forced(Reference.blocks[k])

\* C6 (streams of one or more blocks): for a well-formed stream of N >= 1
\* blocks followed by a valid index,
\* read_blocks on a lazy, seekable source returns the index-built sequence of N
\* handles; handle k is at index entry k + marker length, which is the offset of
\* handle k of a serial scan of the same bytes, and forcing either yields the
\* same header and payload bytes.
C6_IndexedEqualsSerial ==
    (WellFormedIndexed /\ args.lazy_load /\ args.seekable /\ pc # "start") =>
        /\ IndexReturned /\ result = "ok"
        /\ Len(blocks) = desc.n
        /\ Reference.status = "ok"
        /\ Offsets(blocks) = Offsets(Reference.blocks)
        /\ \A k \in 1..Len(blocks) :
            /\ blocks[k].offset = TheIndex[k] + magic_len
            /\ Forced(blocks[k]) = Forced(Reference.blocks[k])
            /\ Forced(blocks[k])[3] = None

\* the index of a stream of three or more blocks was used
C6_Witness ==
    /\ WellFormedIndexed /\ args.lazy_load /\ args.seekable /\ IndexReturned
    /\ Len(blocks) >= 3
    /\ ~loaded(blocks[2])

\* C10: a handle whose header has the streamed bit set is the last handle the
\* scanner holds, the iteration that appended it was the scanner's last (no
\* chunk is read after it), and the scan returned the sequence ending with it.
C10_StreamedIsLast ==
    \A k \in 1..Len(sc.blocks) :
        is_streamed(Val(sc.blocks[k].header)) =>
            /\ k = Len(sc.blocks)
            /\ sc.status = "ok" /\ sc.branch = "block"
            /\ pc = "done" /\ result = "ok" /\ blocks = sc.blocks

\* a scan ended at a streamed block that has the bytes of a further block behind it
C10_Witness ==
    /\ pc = "done" /\ Len(sc.blocks) > 0
    /\ is_streamed(Val(sc.blocks[Len(sc.blocks)].header))
    /\ desc.streamedAt > 0 /\ desc.streamedAt < desc.n
    /\ Len(blocks) = desc.streamedAt

\* C2 (as claimed): load() leaves the cursor where it was on entry, whether the
\* block read succeeds or raises (the source being open on entry).
C2_LoadRestoresCursor ==
    (last.op = "load" /\ last.state0 = "open") => fd.pos = last.pos0

\* C7: load() on an unloaded handle whose source is closed or dead raises
\* OSError without a tell, seek or read on the source, and leaves the handle
\* (header, data_offset, data) and the source as they were.
C7_LoadOnClosedSource ==
    [][\A i \in 1..Len(blocks) :
          (last'.op = "load" /\ last'.i = i /\ ~loaded(blocks[i]) /\ fd.state # "open") =>
              /\ last'.err = Some("OSError")
              /\ last'.calls = <<>>
              /\ blocks' = blocks
              /\ IsNone(blocks'[i].header) /\ IsNone(blocks'[i].data_offset)
              /\ IsNone(blocks'[i].data)
              /\ fd' = fd]_vars

\* load() has failed on a closed source and the handle is still unloaded
C7_Witness ==
    /\ last.op = "load" /\ last.state0 = "closed"
    /\ last.err = Some("OSError") /\ last.calls = <<>>
    /\ ~loaded(blocks[last.i])

\* the handles of the returned sequence were constructed with validation enabled
CreatedValidating ==
    IF path = "index" THEN args.validate_checksums
    ELSE ~IsNone(call) /\ Val(call).validate_checksums

\* C8: an access to data that verifies the checksum successfully clears
\* validate_checksum, and a handle whose validate_checksum is false keeps it
\* false through every operation, none of which computes a checksum for it.
C8_VerifiedOnce ==
    [][\A i \in 1..Len(blocks) :
          /\ ( /\ last'.i = i /\ last'.op \in {"data", "cached_data"}
               /\ last'.checksummed /\ last'.err = None
               /\ blocks[i].validate_checksum )
                 => ~blocks'[i].validate_checksum
          /\ ~blocks[i].validate_checksum =>
                 /\ ~blocks'[i].validate_checksum
                 /\ ~(last'.i = i /\ last'.checksummed
                        /\ last'.op \in {"load", "data", "cached_data", "header"})
          /\ (last'.i = i /\ last'.op \in {"load", "header"}) => ~last'.checksummed]_vars

\* data of a handle constructed with validation was read again after its
\* checksum had been verified, and no checksum was computed
C8_Witness ==
    /\ CreatedValidating
    /\ last.op = "data" /\ last.err = None /\ ~last.checksummed
    /\ last.prev.op = "data" /\ last.prev.err = None
    /\ ~blocks[last.i].validate_checksum

\* the digest of the payload of the block at h differs from its header's checksum
PayloadDiffers(h) ==
    /\ IsNone(read_block_header(stream, h.offset).err)
    /\ calculate_block_checksum(
           read_block_data(stream, Val(read_block_header(stream, h.offset).header),
                           h.offset + HEADER_SIZE).bytes)
         # Val(read_block_header(stream, h.offset).header).checksum

\* the payload of h can be resolved: the source is open, or h holds its bytes
Resolvable(h) == fd.state = "open" \/ (loaded(h) /\ Val(h.data).kind # "callback")

\* C9: for a handle with validation enabled whose payload digest differs from
\* the header's checksum, an access to data never returns: it raises ValueError
\* when the payload can be resolved (and OSError when the source is gone and
\* the payload is not held); an access to header never raises ValueError and
\* returns the parsed header when the handle is loaded or the source is open.
C9_MismatchRaisesOnData ==
    [][\A i \in 1..Len(blocks) :
          /\ ( /\ last'.op = "data" /\ last'.i = i
               /\ blocks[i].validate_checksum /\ PayloadDiffers(blocks[i]) )
                 => /\ last'.err # None
                    /\ Resolvable(blocks[i]) => last'.err = Some("ValueError")
                    /\ ~Resolvable(blocks[i]) => last'.err = Some("OSError")
                    /\ blocks'[i].validate_checksum
          /\ (last'.op = "header" /\ last'.i = i) =>
                 /\ last'.err # Some("ValueError")
                 /\ (PayloadDiffers(blocks[i]) /\ (loaded(blocks[i]) \/ fd.state = "open"))
                      => /\ last'.err = None
                         /\ last'.value = read_block_header(stream, blocks[i].offset).header]_vars

\* the header of a handle was returned right after its data had raised ValueError
C9_Witness ==
    /\ last.op = "header" /\ last.err = None
    /\ last.prev.op = "data" /\ last.prev.err = Some("ValueError")
    /\ blocks[last.i].validate_checksum
    /\ PayloadDiffers(blocks[last.i])

\* a stream of N >= 0 blocks, none streamed, written without fault, no index
WellFormedNoIndex ==
    /\ desc.index = NoIndex
    /\ desc.flip = 0 /\ desc.streamedAt = 0 /\ desc.tail = <<>>
    /\ AllZero(desc.pad)

\* the header of block k as it was written
WrittenHeader(k) ==
    unpack_header(<<0, 0, used_size_of(k) + slack_of(k), used_size_of(k), used_size_of(k),
                    calculate_block_checksum(payload_of(k))>>)

\* C11: for a well-formed stream of N non-streamed blocks without index the
\* scan returns exactly N handles in file order: handle k sits right behind
\* the k-th marker and holds the k-th header, forcing it yields the k-th
\* payload, offsets increase strictly, and the offset of handle k+1 is the
\* data offset of handle k plus its allocated size plus the marker length.
C11_SerialInFileOrder ==
    (WellFormedNoIndex /\ Terminated) =>
        /\ result = "ok" /\ ~IsNone(call) /\ blocks = sc.blocks
        /\ Len(blocks) = desc.n
        /\ \A k \in 1..Len(blocks) :
            /\ blocks[k].offset = marker_offsets(desc.n, Len(desc.pad))[k] + magic_len
            /\ blocks[k].header = Some(WrittenHeader(k))
            /\ Forced(blocks[k])[3] = None
            /\ Forced(blocks[k])[4] = payload_of(k)
        /\ \A k \in 1..(Len(blocks) - 1) :
            /\ blocks[k].offset < blocks[k + 1].offset
            /\ blocks[k + 1].offset =
                 Val(blocks[k].data_offset) + Val(blocks[k].header).allocated_size + magic_len

\* a scan of three or more blocks returned, one of them with unused allocated cells
C11_Witness ==
    /\ WellFormedNoIndex /\ pc = "done" /\ path = "direct"
    /\ Len(blocks) >= 3
    /\ Val(blocks[2].header).allocated_size > Val(blocks[2].header).used_size

\* the calls that move or read the source
Touches(calls) == \E j \in 1..Len(calls) : calls[j] \in {"tell", "seek", "read"}

\* C12: read_blocks is on a path of the index-accelerated loader only when
\* lazy_load is true and the source is seekable; otherwise it enters
\* read_blocks_serially with the caller's flags at the starting position,
\* having called neither tell, seek nor read (no index is searched or read),
\* and its outcome is that of the serial scan.
C12_IndexPathOnlyLazySeekable ==
    /\ path \in {"noindex", "badindex", "emptyindex", "spot_magic", "spot_load", "index"}
         => (args.lazy_load /\ args.seekable)
    /\ ((~args.lazy_load \/ ~args.seekable) /\ pc # "start") =>
        /\ path = "direct"
        /\ call = Some(CallerCall)
        /\ last.op = "read_blocks" =>
            /\ ~Touches(last.calls)
            /\ fd.pos = starting_position(args)
            /\ sc = serial_enter(CallerCall)
        /\ Terminated =>
            /\ result = Reference.status
            /\ result = "ok" => blocks = Reference.blocks

\* a lazy read of a non-seekable source that holds blocks and a right index
\* has entered the serial scan
C12_Witness ==
    /\ path = "direct" /\ last.op = "read_blocks"
    /\ args.lazy_load /\ ~args.seekable
    /\ desc.index = ValidIndex /\ desc.n >= 1

\* the events of the spot check are, in turn for the first and for the last
\* position of an index of n entries, the comparison of the cells at the entry
\* with the marker and then the load of the handle
EndpointsInTurn(trace, index, n) ==
    /\ Len(trace) = 4
    /\ \A j \in {1, 2} :
        /\ trace[2 * j - 1].op = "compare" /\ trace[2 * j].op = "load"
        /\ trace[2 * j - 1].k = (IF j = 1 THEN 1 ELSE n) /\ trace[2 * j].k = trace[2 * j - 1].k
        /\ trace[2 * j - 1].at = index[trace[2 * j].k]
        /\ trace[2 * j].at = index[trace[2 * j].k] + magic_len

\* C13: when read_blocks returns the sequence built from an index of N
\* entries, the first and the last handle are loaded and every interior
\* handle has no header, no data offset and no data; the spot check compared
\* the cells at the first entry with the marker, loaded the first handle,
\* compared the cells at the last entry, loaded the last handle, and did
\* nothing at an interior entry or handle offset.
C13_OnlyEndpointsLoaded ==
    [][ReadBlocksIndexed =>
          /\ blocks' = SpotChecked.blocks /\ Len(blocks') = Len(IndexRead)
          /\ loaded(blocks'[1]) /\ loaded(blocks'[Len(blocks')])
          /\ \A k \in 2..(Len(blocks') - 1) :
              /\ ~loaded(blocks'[k])
              /\ IsNone(blocks'[k].header) /\ IsNone(blocks'[k].data_offset)
              /\ IsNone(blocks'[k].data)
              /\ \A j \in 1..Len(SpotChecked.trace) :
                    /\ SpotChecked.trace[j].k # k
                    /\ SpotChecked.trace[j].at \notin {IndexRead[k], blocks'[k].offset}
          /\ EndpointsInTurn(SpotChecked.trace, IndexRead, Len(IndexRead))]_vars

\* an index of three or more entries was trusted: both ends are loaded, the
\* second handle is not
C13_Witness ==
    /\ IndexReturned /\ last.op = "read_blocks"
    /\ Len(blocks) >= 3
    /\ loaded(blocks[1]) /\ loaded(blocks[Len(blocks)])
    /\ IsNone(blocks[2].header) /\ IsNone(blocks[2].data)

\* C14: when an iteration of the scan has read a chunk equal to the first
\* marker-length bytes of the index header, the scan stops there: it returns
\* without error the handles it held before the iteration, and the iteration
\* made one read, of the cells that complete the chunk and no others; with no
\* block found as with one or more.
C14_IndexMarkerStopsScan ==
    [][(pc = "scan" /\ sc'.chunk = Prefix(INDEX_HEADER, magic_len)) =>
          /\ sc'.branch = "index" /\ sc'.status = "ok"
          /\ pc' = "done" /\ result' = "ok"
          /\ sc'.blocks = sc.blocks /\ blocks' = sc.blocks
          /\ sc'.calls = <<"read">>
          /\ sc'.chunk = sc.buff \o fd_read(stream, fd.pos, magic_len - Len(sc.buff))
          /\ fd'.pos = fd.pos + (magic_len - Len(sc.buff))]_vars

\* the scan stopped at the index header behind one or more blocks
C14_Witness ==
    /\ sc.branch = "index" /\ pc = "done" /\ Len(blocks) >= 1
    /\ fd.pos < Len(stream)

\* the scan stopped at the index header before any block
C14_WitnessNoBlocks ==
    /\ sc.branch = "index" /\ pc = "done" /\ Len(blocks) = 0
    /\ fd.pos < Len(stream)

\* the cells the scan has for its next chunk: those kept in buff and those
\* left in the stream
CellsLeft == Len(sc.buff) + Len(fd_read_all(stream, fd.pos))

\* an iteration of the scan stops the scan, raises, or moves the cursor
\* forward over at least one cell of the stream; and when a marker is expected
\* and fewer than marker-length cells are left, it ends the scan without error
\* with the handles found so far
ScanProgress ==
    pc = "scan" =>
        /\ \/ sc'.status # "run"
           \/ fd.pos < Len(stream) /\ fd'.pos > fd.pos
        /\ sc'.status = "run" <=> pc' = "scan"
        /\ (~sc.after_magic /\ CellsLeft < magic_len) =>
              /\ sc'.status = "ok" /\ sc'.branch = "eof"
              /\ pc' = "done" /\ result' = "ok" /\ blocks' = sc.blocks

\* C15: read_blocks_serially terminates on every finite stream: every
\* iteration stops the scan, raises, or consumes at least one cell that was
\* still unread, so the scan makes at most as many iterations as the stream
\* has cells, plus the one that ends it; and a short rest where a marker is
\* expected ends the scan without error with the handles found so far.
C15_ScanTerminates == [][ScanProgress]_vars

\* the scan ended without error on a rest shorter than a marker, behind a block
C15_Witness ==
    /\ sc.branch = "eof" /\ pc = "done" /\ result = "ok"
    /\ Len(sc.chunk) > 0 /\ Len(sc.chunk) < magic_len
    /\ Len(blocks) >= 1 /\ blocks = sc.blocks

\* C16: load() of a loaded handle returns without a call on the source and
\* without a change to the handle or the source, whether the source is open,
\* closed or dead; and an iteration of an eager scan that appends a handle
\* makes no call beyond the read of the chunk and read_block's reads of the
\* header and the payload: the handle is constructed loaded and the load() of
\* its constructor reads nothing.
C16_LoadOfLoadedIsNoOp ==
    [][/\ \A i \in 1..Len(blocks) :
            (last'.op = "load" /\ last'.i = i /\ loaded(blocks[i])) =>
                /\ last'.err = None
                /\ last'.calls = <<>>
                /\ blocks' = blocks
                /\ fd' = fd
       /\ (pc = "scan" /\ sc'.branch = "block" /\ Len(sc'.blocks) > Len(sc.blocks)) =>
            /\ loaded(sc'.blocks[Len(sc'.blocks)])
            /\ ~sc.lazy_load =>
                 sc'.calls = (IF sc.after_magic THEN <<>> ELSE <<"read">>) \o <<"read", "read">>]_vars

\* load() of a handle that a scan constructed loaded returned on a source that
\* was no longer open
C16_Witness ==
    /\ last.op = "load" /\ last.err = None /\ last.calls = <<>>
    /\ last.state0 # "open"
    /\ path = "direct" /\ ~args.lazy_load
    /\ loaded(blocks[last.i])

\* C17: once cached_data has returned, the bytes it retained never change and
\* every later cached_data access returns them without error, without a call
\* on the source, without the deferred producer or a checksum, and without a
\* change to the handle or the source.  While nothing is retained, a
\* cached_data access resolves data: what it returns is retained, a failure
\* retains nothing, and a checksum is computed exactly when the payload was
\* obtained for a handle that still validates.
C17_CachedDataResolvedOnce ==
    [][\A i \in 1..Len(blocks) :
          /\ ~IsNone(blocks[i].cached_data) =>
                blocks'[i].cached_data = blocks[i].cached_data
          /\ (last'.op = "cached_data" /\ last'.i = i /\ ~IsNone(blocks[i].cached_data)) =>
                /\ last'.err = None
                /\ last'.value = Val(blocks[i].cached_data)
                /\ last'.calls = <<>> /\ ~last'.checksummed
                /\ blocks' = blocks /\ fd' = fd
          /\ (last'.op = "cached_data" /\ last'.i = i /\ IsNone(blocks[i].cached_data)) =>
                /\ last'.err = None =>
                      /\ blocks'[i].cached_data = Some(last'.value)
                      /\ loaded(blocks'[i])
                /\ last'.err # None => IsNone(blocks'[i].cached_data)
                /\ last'.err \in {None, Some("ValueError")} =>
                      last'.checksummed = blocks[i].validate_checksum
                /\ last'.checksummed => last'.err \in {None, Some("ValueError")}
                /\ ( /\ fd.state = "open"
                     /\ (~loaded(blocks[i]) \/ Val(blocks[i].data).kind = "callback") ) =>
                      last'.calls # <<>>]_vars

\* cached_data of a handle with a deferred payload returned the retained bytes
\* a second time, with no call on the source
C17_Witness ==
    /\ last.op = "cached_data" /\ last.err = None /\ last.calls = <<>>
    /\ last.prev.op = "cached_data" /\ last.prev.err = None
    /\ Val(blocks[last.i].data).kind = "callback"
    /\ blocks[last.i].cached_data = Some(last.value)

\* cached_data failed on the checksum, retained nothing, and the next access
\* resolved and verified again
C17_WitnessRetry ==
    /\ last.op = "cached_data" /\ last.err = Some("ValueError") /\ last.checksummed
    /\ last.prev.op = "cached_data" /\ last.prev.err = Some("ValueError")
    /\ IsNone(blocks[last.i].cached_data)

\* C18 (as claimed): on a lazy, seekable source read_blocks raises only what
\* read_blocks_serially from the starting position with the caller's flags
\* raises: an index that cannot be validated, one without entries included,
\* leads to the serial scan and never to an error out of the index path.
C18_NoErrorFromIndexPath ==
    (args.lazy_load /\ args.seekable /\ pc = "error") =>
        /\ ~IsNone(call)
        /\ result = Reference.status

\* the last operation was an access to the payload of a handle
PayloadAccess == last.op \in {"data", "cached_data"}

\* C19: for handles constructed with validation, over the unchanged stream:
\* an access to data or cached_data that returns, returns bytes whose digest
\* is the checksum of the handle's header; a failed verification leaves
\* validate_checksum true and nothing retained; and a handle whose payload
\* digest differs from its header's checksum keeps validate_checksum true and
\* retains nothing, every access to its payload failing: with ValueError, or
\* with OSError when the source is no longer open and the payload not held.
C19_NoUnverifiedPayload ==
    CreatedValidating =>
        /\ (PayloadAccess /\ last.err = None) =>
              /\ ~IsNone(blocks[last.i].header)
              /\ calculate_block_checksum(last.value) = Val(blocks[last.i].header).checksum
        /\ (PayloadAccess /\ last.err = Some("ValueError")) =>
              /\ last.checksummed
              /\ blocks[last.i].validate_checksum
              /\ IsNone(blocks[last.i].cached_data)
        /\ \A i \in 1..Len(blocks) :
              PayloadDiffers(blocks[i]) =>
                  /\ blocks[i].validate_checksum
                  /\ IsNone(blocks[i].cached_data)
                  /\ (PayloadAccess /\ last.i = i) =>
                        /\ last.err \in {Some("ValueError"), Some("OSError")}
                        /\ last.state0 = "open" => last.err = Some("ValueError")

\* cached_data failed on the checksum right after data had failed on it
C19_Witness ==
    /\ CreatedValidating
    /\ last.op = "cached_data" /\ last.err = Some("ValueError")
    /\ last.prev.op = "data" /\ last.prev.err = Some("ValueError")
    /\ PayloadDiffers(blocks[last.i])
    /\ blocks[last.i].validate_checksum /\ IsNone(blocks[last.i].cached_data)

\* header, data_offset and data of a handle are all set or all None
AllOrNothing(h) ==
    \/ ~IsNone(h.data) /\ ~IsNone(h.header) /\ ~IsNone(h.data_offset)
    \/ IsNone(h.data) /\ IsNone(h.header) /\ IsNone(h.data_offset)

\* C20: every handle that read_blocks returned or the scan holds has its
\* header and data_offset set when it is loaded (and all three of header,
\* data_offset and data unset when it is not); and an operation in which
\* load() fails leaves the handle as it was before the call.
C20_LoadedHasHeader ==
    /\ [](/\ \A i \in 1..Len(blocks) :
                /\ loaded(blocks[i]) => (~IsNone(blocks[i].header) /\ ~IsNone(blocks[i].data_offset))
                /\ AllOrNothing(blocks[i])
          /\ \A i \in 1..Len(sc.blocks) :
                /\ loaded(sc.blocks[i])
                /\ ~IsNone(sc.blocks[i].header) /\ ~IsNone(sc.blocks[i].data_offset))
    /\ [][\A i \in 1..Len(blocks) :
            (last'.op = "load" /\ last'.i = i /\ last'.err # None) =>
                /\ ~loaded(blocks[i])
                /\ blocks'[i].header = blocks[i].header
                /\ blocks'[i].data_offset = blocks[i].data_offset
                /\ blocks'[i].data = blocks[i].data
                /\ blocks' = blocks]_vars

\* load() of an unloaded handle failed in read_block on an open source, next
\* to a loaded handle
C20_Witness ==
    /\ last.op = "load" /\ last.err = Some("OSError") /\ last.state0 = "open"
    /\ last.calls # <<>>
    /\ ~loaded(blocks[last.i]) /\ IsNone(blocks[last.i].header)
    /\ loaded(blocks[1])

====
